---- MODULE Spec2Model ----
(***************************************************************************)
(* Model of the warehouse inventory programs: the warehouse graph built by *)
(* load_warehouse_data_from_csv (data_model.py), the allocation executors  *)
(* move_stock (stock_optimization.py) and release_stock_to_customer        *)
(* (sales_stock_selection.py), the fitness heuristic, the two copies of    *)
(* find_best_warehouse and the two copies of process_required_stock.       *)
(*                                                                         *)
(* Warehouse codes and item codes are strings in the program; they are     *)
(* modelled by integers whose order is the string order of the codes       *)
(* (heapq compares the queue's tuples, warehouse code included).           *)
(* A bundle (a dict item_code -> quantity) is the sequence of its          *)
(* <<item_code, quantity>> pairs in insertion order, item codes distinct.  *)
(* A warehouse's adjacent dict is the sequence of its <<neighbor, cost>>   *)
(* pairs in insertion order, neighbors distinct.                           *)
(* An expiry_date is <<>> when absent (None or the empty string, both      *)
(* falsy) and <<d>> for a date whose (expiry_date - now).days is d.        *)
(*                                                                         *)
(* Spec is a request: the graph is loaded from the two files, one call of  *)
(* process_required_stock (optimize or dispatch flow) is made on it and    *)
(* the ledger it leaves is written to the output file, as                  *)
(* trigger_stock_optimization and trigger_stock_dispatch do.               *)
(* SpecExecutor is the executors on their own: a ledger is loaded and      *)
(* move_stock and release_stock_to_customer are called on it in sequence.  *)
(* SpecFiles is the stock file read and written back, SpecHeuristic the    *)
(* heuristic called on a loaded ledger, SpecSearch one run of             *)
(* find_best_warehouse taken one iteration of its loop at a time, and      *)
(* SpecFallback a request for two items on a graph of up to three stock    *)
(* rows.                                                                   *)
(***************************************************************************)
EXTENDS Integers, Sequences, FiniteSets, TLC

VARIABLES
    warehouses,   \* the graph: warehouse_code -> [adjacent, warehouse_stock]
    pre,          \* the graph as it was when the last call started
    call,         \* the last call: [op, start, dest, bundle] (SpecFiles: the files)
    out,          \* what the last call did: results of its searches, error raised
                  \* (SpecSearch: the position of the running search)
    ncalls        \* number of calls made on this graph (SpecSearch: iterations)

vars == <<warehouses, pre, call, out, ncalls>>

----------------------------------------------------------------------------
(* Bounds of the model.                                                    *)

WarehouseCodes == {1, 2, 3}
ItemCodes == {1, 2}
ExpiryDays == {5}    \* days to expiry of the stock rows that carry a date
MaxQty == 1          \* quantity of a stock row of a request's file: 1..MaxQty
MaxMin == 1          \* min_amount of a stock row: 0..MaxMin
MaxCost == 1         \* travel_cost of a connection row: 0..MaxCost
MaxReq == 1          \* a quantity requested from process_required_stock: 1..MaxReq
MaxStockRows == 2    \* rows of the stock file
MaxConnRows == 2     \* rows of the connection file
MaxExecQty == 2      \* quantity of a stock row of an executor's ledger: 1..MaxExecQty
MaxExecReq == 2      \* a quantity passed to an executor: 1..MaxExecReq
MaxCalls == 2        \* executor calls made on one loaded ledger

----------------------------------------------------------------------------
(* Generic helpers.                                                        *)

Last(s) == s[Len(s)]

SeqsUpTo(S, n) == UNION {[1..k -> S] : k \in 0..n}

Range(s) == {s[i] : i \in DOMAIN s}

\* index of the first element of s satisfying the test, 0 if none
\* (a Python for ... break ... else loop)
RECURSIVE FirstRecord(_, _, _)
FirstRecord(stock, item_code, i) ==
    IF i > Len(stock) THEN 0
    ELSE IF stock[i].item_code = item_code THEN i
    ELSE FirstRecord(stock, item_code, i + 1)

RECURSIVE LastRecord(_, _, _)
LastRecord(stock, item_code, i) ==
    IF i = 0 THEN 0
    ELSE IF stock[i].item_code = item_code THEN i
    ELSE LastRecord(stock, item_code, i - 1)

----------------------------------------------------------------------------
(* data_model.py                                                           *)

Warehouse == [adjacent |-> <<>>, warehouse_stock |-> <<>>]

add_stock(w, stock) == [w EXCEPT !.warehouse_stock = Append(@, stock)]

RECURSIVE NeighborIndex(_, _, _)
NeighborIndex(adjacent, neighbor, i) ==
    IF i > Len(adjacent) THEN 0
    ELSE IF adjacent[i][1] = neighbor THEN i
    ELSE NeighborIndex(adjacent, neighbor, i + 1)

\* self.adjacent[neighbor] = cost: a new key goes last, an existing key keeps
\* its place and takes the new cost
add_connection(w, neighbor, cost) ==
    LET i == NeighborIndex(w.adjacent, neighbor, 1) IN
    IF i = 0 THEN [w EXCEPT !.adjacent = Append(@, <<neighbor, cost>>)]
    ELSE [w EXCEPT !.adjacent[i] = <<neighbor, cost>>]

\* warehouses with the warehouse code created on demand
Ensure(whs, code) ==
    IF code \in DOMAIN whs THEN whs
    ELSE [c \in DOMAIN whs \cup {code} |-> IF c = code THEN Warehouse ELSE whs[c]]

RECURSIVE LoadStock(_, _, _)
LoadStock(whs, rows, i) ==
    IF i > Len(rows) THEN whs
    ELSE LET row == rows[i]
             stock == [item_code |-> row.item_code, quantity |-> row.quantity,
                       min_amount |-> row.min_amount, expiry_date |-> row.expiry_date]
             w1 == Ensure(whs, row.warehouse_code)
         IN LoadStock([w1 EXCEPT ![row.warehouse_code] = add_stock(@, stock)], rows, i + 1)

RECURSIVE LoadConnections(_, _, _)
LoadConnections(whs, rows, i) ==
    IF i > Len(rows) THEN whs
    ELSE LET row == rows[i]
             w1 == Ensure(Ensure(whs, row.warehouse_code), row.neighbor_code)
         IN LoadConnections(
                [w1 EXCEPT ![row.warehouse_code] =
                               add_connection(@, row.neighbor_code, row.travel_cost)],
                rows, i + 1)

load_warehouse_data_from_csv(stock_rows, connection_rows) ==
    LoadConnections(LoadStock(<<>>, stock_rows, 1), connection_rows, 1)

----------------------------------------------------------------------------
(* The allocation executors.                                               *)

NoError == "none"
Insufficient == "insufficient stock"
NotFound == "item not found"


\* Debit without the reserve: the whole quantity counts as available.
DebitWholeQuantity(stock, item_code, quantity) ==
    LET i == FirstRecord(stock, item_code, 1) IN
    IF i = 0 THEN [stock |-> stock, error |-> "item not found"]
    ELSE IF stock[i].quantity >= quantity
         THEN [stock |-> [stock EXCEPT ![i].quantity = @ - quantity], error |-> "none"]
         ELSE [stock |-> stock, error |-> "insufficient stock"]

\* Debit that subtracts before it tests, and leaves the record debited when it raises.
DebitThenRaise(stock, item_code, quantity) ==
    LET i == FirstRecord(stock, item_code, 1) IN
    IF i = 0 THEN [stock |-> stock, error |-> "item not found"]
    ELSE [stock |-> [stock EXCEPT ![i].quantity = @ - quantity],
          error |-> IF stock[i].quantity - stock[i].min_amount >= quantity
                    THEN "none" ELSE "insufficient stock"]

\* The debit of one item at a stock list: the first record of the item is the
\* one tested and debited; [stock, error].
Debit(stock, item_code, quantity) ==
    LET i == FirstRecord(stock, item_code, 1) IN
    IF i = 0 THEN [stock |-> stock, error |-> NotFound]
    ELSE LET available_quantity == stock[i].quantity - stock[i].min_amount IN
         IF available_quantity >= quantity
         THEN [stock |-> [stock EXCEPT ![i].quantity = @ - quantity], error |-> NoError]
         ELSE [stock |-> stock, error |-> Insufficient]

\* The credit that is not made.
CreditDropped(stock, item_code, quantity) == stock

\* The credit that rewrites the record it increases as a new record.
CreditRewritingRecord(stock, item_code, quantity) ==
    LET i == FirstRecord(stock, item_code, 1) IN
    IF i = 0
    THEN Append(stock, [item_code |-> item_code, quantity |-> quantity,
                        min_amount |-> 0, expiry_date |-> <<>>])
    ELSE [stock EXCEPT ![i] = [item_code |-> item_code, quantity |-> @.quantity + quantity,
                               min_amount |-> 0, expiry_date |-> <<>>]]

\* The credit of one item at a stock list: the first record of the item is
\* increased, a record is appended when there is none.
Credit(stock, item_code, quantity) ==
    LET i == FirstRecord(stock, item_code, 1) IN
    IF i = 0
    THEN Append(stock, [item_code |-> item_code, quantity |-> quantity,
                        min_amount |-> 0, expiry_date |-> <<>>])
    ELSE [stock EXCEPT ![i].quantity = @ + quantity]

\* Items i.. of the bundle moved from source to destination; stops at the first
\* item whose debit raises. failed_at is that item's position, 0 if none.
RECURSIVE MoveFrom(_, _, _, _, _)
MoveFrom(source, destination, stock_to_move, whs, i) ==
    IF i > Len(stock_to_move) THEN [warehouses |-> whs, error |-> NoError, failed_at |-> 0]
    ELSE LET item_code == stock_to_move[i][1]
             quantity == stock_to_move[i][2]
             d == Debit(whs[source].warehouse_stock, item_code, quantity)
             w1 == [whs EXCEPT ![source].warehouse_stock = d.stock]
         IN IF d.error # NoError
            THEN [warehouses |-> w1, error |-> d.error, failed_at |-> i]
            ELSE LET w2 == [w1 EXCEPT ![destination].warehouse_stock =
                                          Credit(@, item_code, quantity)]
                 IN MoveFrom(source, destination, stock_to_move, w2, i + 1)

\* move_stock made all-or-nothing: a failure undoes the items already moved.
MoveStockRolledBack(source, destination, stock_to_move, whs) ==
    LET m == MoveFrom(source, destination, stock_to_move, whs, 1) IN
    IF m.error # NoError THEN [m EXCEPT !.warehouses = whs] ELSE m

move_stock(source, destination, stock_to_move, whs) ==
    MoveFrom(source, destination, stock_to_move, whs, 1)

RECURSIVE ReleaseFrom(_, _, _, _)
ReleaseFrom(warehouse_code, stock_to_release, whs, i) ==
    IF i > Len(stock_to_release)
    THEN [warehouses |-> whs, error |-> NoError, failed_at |-> 0]
    ELSE LET item_code == stock_to_release[i][1]
             quantity == stock_to_release[i][2]
             d == Debit(whs[warehouse_code].warehouse_stock, item_code, quantity)
             w1 == [whs EXCEPT ![warehouse_code].warehouse_stock = d.stock]
         IN IF d.error # NoError
            THEN [warehouses |-> w1, error |-> d.error, failed_at |-> i]
            ELSE ReleaseFrom(warehouse_code, stock_to_release, w1, i + 1)

release_stock_to_customer(warehouse_code, stock_to_release, whs) ==
    ReleaseFrom(warehouse_code, stock_to_release, whs, 1)

----------------------------------------------------------------------------
(* The fitness heuristic (the same text in both programs).                 *)

ExpiryHorizon == 30
ShortfallWeight == 2

\* math.ceil((30 - days_to_expiry) * 0.1), taken when days_to_expiry < 30
ExpiryReward(days_to_expiry) ==
    IF days_to_expiry < ExpiryHorizon
    THEN ((ExpiryHorizon - days_to_expiry) + 9) \div 10
    ELSE 0

\* The term of one item with the expiry reward given only to a record that
\* covers the requirement.
ItemPenaltyRewardIfCovered(stock, item_code, required_amount) ==
    LET i == LastRecord(stock, item_code, Len(stock)) IN
    IF i = 0 THEN required_amount * 2
    ELSE LET item == stock[i]
             available_amount == item.quantity - item.min_amount
         IN IF available_amount < required_amount
            THEN (required_amount - available_amount) * 2
            ELSE IF item.expiry_date # <<>> /\ item.expiry_date[1] < 30
                 THEN 0 - ((30 - item.expiry_date[1]) + 9) \div 10
                 ELSE 0

\* the term of one requested item; stock_dict keeps the last record of an item
ItemPenalty(stock, item_code, required_amount) ==
    LET i == LastRecord(stock, item_code, Len(stock)) IN
    IF i = 0 THEN required_amount * ShortfallWeight
    ELSE LET item == stock[i]
             available_amount == item.quantity - item.min_amount
             shortfall == IF available_amount < required_amount
                          THEN (required_amount - available_amount) * ShortfallWeight
                          ELSE 0
             reward == IF item.expiry_date # <<>>
                       THEN ExpiryReward(item.expiry_date[1])
                       ELSE 0
         IN shortfall - reward

RECURSIVE HeuristicFrom(_, _, _)
HeuristicFrom(stock, required_stock, i) ==
    IF i > Len(required_stock) THEN 0
    ELSE ItemPenalty(stock, required_stock[i][1], required_stock[i][2])
         + HeuristicFrom(stock, required_stock, i + 1)

heuristic(stock, required_stock) == HeuristicFrom(stock, required_stock, 1)

----------------------------------------------------------------------------
(* find_best_warehouse.                                                    *)

\* The sum of the quantities, the reserve not deducted.
RECURSIVE SumQuantity(_, _, _)
SumQuantity(stock, item_code, i) ==
    IF i > Len(stock) THEN 0
    ELSE (IF stock[i].item_code = item_code THEN stock[i].quantity ELSE 0)
         + SumQuantity(stock, item_code, i + 1)

\* sum(item['quantity'] - item['min_amount'] for the records of item_code)
RECURSIVE SumAvailable(_, _, _)
SumAvailable(stock, item_code, i) ==
    IF i > Len(stock) THEN 0
    ELSE (IF stock[i].item_code = item_code
          THEN stock[i].quantity - stock[i].min_amount ELSE 0)
         + SumAvailable(stock, item_code, i + 1)

\* the terminal test of the search
CanFulfill(stock, required_stock) ==
    \A k \in 1..Len(required_stock) :
        SumAvailable(stock, required_stock[k][1], 1) >= required_stock[k][2]

\* Python's list order on paths
RECURSIVE PathLess(_, _, _)
PathLess(p, q, i) ==
    IF i > Len(p) THEN i <= Len(q)
    ELSE IF i > Len(q) THEN FALSE
    ELSE IF p[i] # q[i] THEN p[i] < q[i]
    ELSE PathLess(p, q, i + 1)

\* Python's tuple order on the queue's entries (total_cost, code, path)
EntryLess(a, b) ==
    IF a[1] # b[1] THEN a[1] < b[1]
    ELSE IF a[2] # b[2] THEN a[2] < b[2]
    ELSE PathLess(a[3], b[3], 1)

\* The pop that takes, among the entries of least total_cost, the greatest.
HeapPopTiesReversed(pq) ==
    CHOOSE e \in pq : \A o \in pq \ {e} : e[1] < o[1] \/ (e[1] = o[1] /\ EntryLess(o, e))

\* The pop that takes the greatest entry of the queue.
HeapPopGreatest(pq) == CHOOSE e \in pq : \A o \in pq \ {e} : EntryLess(o, e)

\* heapq.heappop: the least entry of the queue
HeapPop(pq) == CHOOSE e \in pq : \A o \in pq \ {e} : EntryLess(e, o)

\* Expand pushing the path without the warehouse being expanded.
ExpandPathNotExtended(whs, required_stock, total_cost, current, path, visited) ==
    LET adjacent == whs[current].adjacent IN
    { <<total_cost + adjacent[k][2]
          + heuristic(whs[adjacent[k][1]].warehouse_stock, required_stock),
        adjacent[k][1],
        path>> :
      k \in {j \in 1..Len(adjacent) : adjacent[j][1] \notin visited} }

\* Expand following the edges in both directions.
ExpandUndirected(whs, required_stock, total_cost, current, path, visited) ==
    LET adjacent == whs[current].adjacent IN
    { <<total_cost + adjacent[k][2]
          + heuristic(whs[adjacent[k][1]].warehouse_stock, required_stock),
        adjacent[k][1],
        Append(path, current)>> :
      k \in {j \in 1..Len(adjacent) : adjacent[j][1] \notin visited} }
    \cup
    { <<total_cost + whs[n].adjacent[NeighborIndex(whs[n].adjacent, current, 1)][2]
          + heuristic(whs[n].warehouse_stock, required_stock),
        n,
        Append(path, current)>> :
      n \in {o \in DOMAIN whs \ visited :
                NeighborIndex(whs[o].adjacent, current, 1) # 0} }

\* the entries pushed when current is expanded: one per neighbor not visited
Expand(whs, required_stock, total_cost, current, path, visited) ==
    LET adjacent == whs[current].adjacent IN
    { <<total_cost + adjacent[k][2]
          + heuristic(whs[adjacent[k][1]].warehouse_stock, required_stock),
        adjacent[k][1],
        Append(path, current)>> :
      k \in {j \in 1..Len(adjacent) : adjacent[j][1] \notin visited} }

NoResult == [found |-> FALSE, cost |-> 0, path |-> <<>>]

\* the while loop of sales_stock_selection.find_best_warehouse
RECURSIVE DispatchLoop(_, _, _, _)
DispatchLoop(whs, required_stock, pq, visited) ==
    IF pq = {} THEN NoResult
    ELSE LET e == HeapPop(pq)
             total_cost == e[1]
             current == e[2]
             path == e[3]
             rest == pq \ {e}
         IN IF current \in visited
            THEN DispatchLoop(whs, required_stock, rest, visited)
            ELSE IF CanFulfill(whs[current].warehouse_stock, required_stock)
            THEN [found |-> TRUE, cost |-> total_cost, path |-> Append(path, current)]
            ELSE DispatchLoop(whs, required_stock,
                     rest \cup Expand(whs, required_stock, total_cost, current, path,
                                      visited \cup {current}),
                     visited \cup {current})

find_best_warehouse_dispatch(start, whs, required_stock) ==
    DispatchLoop(whs, required_stock, {<<0, start, <<>>>>}, {})

\* the while loop of stock_optimization.find_best_warehouse: an entry of the
\* start warehouse is expanded and then skipped, never tested
RECURSIVE OptimizeLoop(_, _, _, _, _)
OptimizeLoop(start, whs, required_stock, pq, visited) ==
    IF pq = {} THEN NoResult
    ELSE LET e == HeapPop(pq)
             total_cost == e[1]
             current == e[2]
             path == e[3]
             rest == pq \ {e}
         IN IF current = start
            THEN OptimizeLoop(start, whs, required_stock,
                     rest \cup Expand(whs, required_stock, total_cost, current, path,
                                      visited \cup {current}),
                     visited \cup {current})
            ELSE IF current \in visited
            THEN OptimizeLoop(start, whs, required_stock, rest, visited)
            ELSE IF CanFulfill(whs[current].warehouse_stock, required_stock)
            THEN [found |-> TRUE, cost |-> total_cost, path |-> Append(path, current)]
            ELSE OptimizeLoop(start, whs, required_stock,
                     rest \cup Expand(whs, required_stock, total_cost, current, path,
                                      visited \cup {current}),
                     visited \cup {current})

\* The optimize search whose branch for the start warehouse pushes the
\* neighbors with the path as popped, the start not appended to it.
FindOptimizeStartNotOnPath(start, whs, required_stock) ==
    OptimizeLoop(start, whs, required_stock,
                 ExpandPathNotExtended(whs, required_stock, 0, start, <<>>, {start}),
                 {start})

find_best_warehouse_optimize(start, whs, required_stock) ==
    OptimizeLoop(start, whs, required_stock, {<<0, start, <<>>>>}, {})

----------------------------------------------------------------------------
(* process_required_stock.                                                 *)

\* remaining_stock[item_code] = 0
SetRemaining(remaining_stock, i) == [remaining_stock EXCEPT ![i] = <<@[1], 0>>]

\* The report of a call: the result of the whole-bundle search, the result of
\* each per-item search made (in bundle order), the remaining requirements,
\* the error raised by the executor (NoError if the call returned) with the
\* position of the item being allocated, and the graph the call leaves.
Report(whs, whole, items, remaining, error, failed_at) ==
    [warehouses |-> whs, whole |-> whole, items |-> items, remaining |-> remaining,
     error |-> error, failed_at |-> failed_at]

\* the per-item loop of stock_optimization.process_required_stock
RECURSIVE OptimizePerItem(_, _, _, _, _, _)
OptimizePerItem(start, whs, required_stock, i, items, remaining) ==
    IF i > Len(required_stock)
    THEN Report(whs, NoResult, items, remaining, NoError, 0)
    ELSE LET single == <<required_stock[i]>>
             result == find_best_warehouse_optimize(start, whs, single)
         IN IF result.found
            THEN LET m == move_stock(Last(result.path), start, single, whs) IN
                 IF m.error # NoError
                 THEN Report(m.warehouses, NoResult, Append(items, result), remaining,
                             m.error, i)
                 ELSE OptimizePerItem(start, m.warehouses, required_stock, i + 1,
                                      Append(items, result), SetRemaining(remaining, i))
            ELSE OptimizePerItem(start, whs, required_stock, i + 1,
                                 Append(items, result), remaining)

process_required_stock_optimize(start, whs, required_stock) ==
    LET result == find_best_warehouse_optimize(start, whs, required_stock) IN
    IF result.found
    THEN LET m == move_stock(Last(result.path), start, required_stock, whs) IN
         Report(m.warehouses, result, <<>>, required_stock, m.error, m.failed_at)
    ELSE OptimizePerItem(start, whs, required_stock, 1, <<>>, required_stock)

\* the per-item loop of sales_stock_selection.process_required_stock
RECURSIVE DispatchPerItem(_, _, _, _, _, _)
DispatchPerItem(start, whs, required_stock, i, items, remaining) ==
    IF i > Len(required_stock)
    THEN Report(whs, NoResult, items, remaining, NoError, 0)
    ELSE LET single == <<required_stock[i]>>
             result == find_best_warehouse_dispatch(start, whs, single)
         IN IF result.found
            THEN LET m == release_stock_to_customer(Last(result.path), single, whs) IN
                 IF m.error # NoError
                 THEN Report(m.warehouses, NoResult, Append(items, result), remaining,
                             m.error, i)
                 ELSE DispatchPerItem(start, m.warehouses, required_stock, i + 1,
                                      Append(items, result), SetRemaining(remaining, i))
            ELSE DispatchPerItem(start, whs, required_stock, i + 1,
                                 Append(items, result), remaining)

process_required_stock_dispatch(start, whs, required_stock) ==
    LET result == find_best_warehouse_dispatch(start, whs, required_stock) IN
    IF result.found
    THEN LET m == release_stock_to_customer(Last(result.path), required_stock, whs) IN
         Report(m.warehouses, result, <<>>, required_stock, m.error, m.failed_at)
    ELSE DispatchPerItem(start, whs, required_stock, 1, <<>>, required_stock)

----------------------------------------------------------------------------
(* save_warehouse_stock_to_csv (data_model.py): the rows written to the    *)
(* output file. A number of the file is the sequence of its decimal        *)
(* digits.                                                                 *)

\* str(n) as csv.DictWriter writes a non-negative int
RECURSIVE FormatInt(_)
FormatInt(n) == IF n < 10 THEN <<n>> ELSE FormatInt(n \div 10) \o <<n % 10>>

\* the keys of the warehouses dict in insertion order: the codes in the order
\* of their first appearance in a sequence of codes
RECURSIVE FirstAppearances(_, _, _)
FirstAppearances(codes, i, order) ==
    IF i > Len(codes) THEN order
    ELSE FirstAppearances(codes, i + 1,
             IF codes[i] \in Range(order) THEN order ELSE Append(order, codes[i]))

RECURSIVE Endpoints(_, _)
Endpoints(connection_rows, i) ==
    IF i > Len(connection_rows) THEN <<>>
    ELSE <<connection_rows[i].warehouse_code, connection_rows[i].neighbor_code>>
         \o Endpoints(connection_rows, i + 1)

KeyOrder(stock_rows, connection_rows) ==
    FirstAppearances([i \in 1..Len(stock_rows) |-> stock_rows[i].warehouse_code]
                         \o Endpoints(connection_rows, 1),
                     1, <<>>)

\* writer.writerow of one record
WrittenRow(warehouse_code, stock) ==
    [warehouse_code |-> warehouse_code, item_code |-> stock.item_code,
     quantity |-> FormatInt(stock.quantity), min_amount |-> FormatInt(stock.min_amount),
     expiry_date |-> IF stock.expiry_date # <<>> THEN stock.expiry_date ELSE <<>>]

\* The save that writes one row per item of a warehouse, its first record.
RECURSIVE SaveFirstRecords(_, _, _)
SaveFirstRecords(whs, order, i) ==
    IF i > Len(order) THEN <<>>
    ELSE LET stock == whs[order[i]].warehouse_stock
             kept == {k \in 1..Len(stock) : FirstRecord(stock, stock[k].item_code, 1) = k}
         IN SelectSeq([k \in 1..Len(stock) |->
                          IF k \in kept THEN WrittenRow(order[i], stock[k]) ELSE <<>>],
                      LAMBDA r : r # <<>>)
            \o SaveFirstRecords(whs, order, i + 1)

\* the rows written: the records of each warehouse, in the order of the dict
RECURSIVE save_warehouse_stock_to_csv(_, _, _)
save_warehouse_stock_to_csv(whs, order, i) ==
    IF i > Len(order) THEN <<>>
    ELSE LET stock == whs[order[i]].warehouse_stock IN
         [k \in 1..Len(stock) |-> WrittenRow(order[i], stock[k])]
         \o save_warehouse_stock_to_csv(whs, order, i + 1)

----------------------------------------------------------------------------------------------------------------------------------------
(* The inputs: the rows of the two files and the bundles of the requests.  *)

StockRowsUpTo(max_quantity, dates) ==
    { [warehouse_code |-> w, item_code |-> c, quantity |-> q, min_amount |-> m,
       expiry_date |-> x] :
      w \in WarehouseCodes, c \in ItemCodes,
      q \in 1..max_quantity, m \in 0..MaxMin, x \in dates }

\* the steady state of the ledger: no row below its reserve
Steady(rows) == {r \in rows : r.quantity >= r.min_amount}

\* the stock files of the requests: with or without a reserve, with or without
\* an expiry date; several rows of one warehouse and item are accepted
RequestRows == Steady(StockRowsUpTo(MaxQty, {<<>>} \cup {<<d>> : d \in ExpiryDays}))

\* the stock files of the executor calls: larger quantities, no date
ExecutorRows == Steady(StockRowsUpTo(MaxExecQty, {<<>>}))

\* the connection files of the requests: rows joining two warehouses
ConnectionRows ==
    { r \in [warehouse_code : WarehouseCodes, neighbor_code : WarehouseCodes,
             travel_cost : 0..MaxCost] : r.warehouse_code # r.neighbor_code }

\* the bundles: item codes distinct, quantities positive
BundlesUpTo(max_quantity) ==
    { b \in SeqsUpTo(ItemCodes \X (1..max_quantity), Cardinality(ItemCodes)) :
        \A i, j \in 1..Len(b) : i # j => b[i][1] # b[j][1] }

RequestBundles == BundlesUpTo(MaxReq)

ExecutorBundles == BundlesUpTo(MaxExecReq)

NoCall == [op |-> "load", start |-> 0, dest |-> 0, bundle |-> <<>>]

----------------------------------------------------------------------------
(* The requests: trigger_stock_optimization and trigger_stock_dispatch     *)
(* load the graph from the two files, make one call of                     *)
(* process_required_stock on it and write the ledger to the output file.   *)
(* out.order is the order of the keys of the warehouses dict, out.written  *)
(* whether the output file was written and out.saved its rows.             *)

Loaded(stock_rows, connection_rows) ==
    /\ warehouses = load_warehouse_data_from_csv(stock_rows, connection_rows)
    /\ pre = warehouses
    /\ call = NoCall
    /\ out = Report(warehouses, NoResult, <<>>, <<>>, NoError, 0)
    /\ ncalls = 0

\* What a request leaves: the report of process_required_stock, the keys of
\* the warehouses dict in insertion order, whether the output file was
\* written and the rows written to it.
Filed(report, order, written, saved) ==
    [warehouses |-> report.warehouses, whole |-> report.whole, items |-> report.items,
     remaining |-> report.remaining, error |-> report.error,
     failed_at |-> report.failed_at, order |-> order, written |-> written,
     saved |-> saved]

\* the graph loaded by a trigger function, nothing written yet
LoadedFromFiles(stock_rows, connection_rows) ==
    /\ warehouses = load_warehouse_data_from_csv(stock_rows, connection_rows)
    /\ pre = warehouses
    /\ call = NoCall
    /\ out = Filed(Report(warehouses, NoResult, <<>>, <<>>, NoError, 0),
                   KeyOrder(stock_rows, connection_rows), FALSE, <<>>)
    /\ ncalls = 0

Init ==
    \E stock_rows \in SeqsUpTo(RequestRows, MaxStockRows),
       connection_rows \in SeqsUpTo(ConnectionRows, MaxConnRows) :
        LoadedFromFiles(stock_rows, connection_rows)

Called(op, start, dest, bundle, report) ==
    /\ pre' = warehouses
    /\ call' = [op |-> op, start |-> start, dest |-> dest, bundle |-> bundle]
    /\ out' = report
    /\ warehouses' = report.warehouses
    /\ ncalls' = ncalls + 1

\* The rest of a trigger function once process_required_stock is done: when
\* it returned, save_warehouse_stock_to_csv writes the ledger it left to the
\* output file; when it raised, the exception leaves the function before the
\* save and no file is written.
Triggered(op, start, dest, bundle, report) ==
    /\ pre' = warehouses
    /\ call' = [op |-> op, start |-> start, dest |-> dest, bundle |-> bundle]
    /\ out' = IF report.error = NoError
              THEN Filed(report, out.order, TRUE,
                         save_warehouse_stock_to_csv(report.warehouses, out.order, 1))
              ELSE Filed(report, out.order, FALSE, <<>>)
    /\ warehouses' = report.warehouses
    /\ ncalls' = ncalls + 1

ProcessOptimize ==
    /\ ncalls = 0
    /\ \E start \in DOMAIN warehouses, b \in RequestBundles :
        Triggered("optimize", start, start, b,
                  process_required_stock_optimize(start, warehouses, b))

ProcessDispatch ==
    /\ ncalls = 0
    /\ \E start \in DOMAIN warehouses, b \in RequestBundles :
        Triggered("dispatch", start, 0, b,
                  process_required_stock_dispatch(start, warehouses, b))

Next ==
    \/ ProcessOptimize
    \/ ProcessDispatch

Spec == Init /\ [][Next]_vars

----------------------------------------------------------------------------
(* The executors called on their own: a ledger is loaded, then up to       *)
(* MaxCalls calls of move_stock and release_stock_to_customer are made.    *)

InitExecutor ==
    \E stock_rows \in SeqsUpTo(ExecutorRows, MaxStockRows) :
        Loaded(stock_rows, <<>>)

MoveStock ==
    /\ ncalls < MaxCalls
    /\ \E source \in DOMAIN warehouses, destination \in DOMAIN warehouses,
          b \in ExecutorBundles :
        LET m == move_stock(source, destination, b, warehouses) IN
        Called("move_stock", source, destination, b,
               Report(m.warehouses, NoResult, <<>>, <<>>, m.error, m.failed_at))

ReleaseStock ==
    /\ ncalls < MaxCalls
    /\ \E warehouse_code \in DOMAIN warehouses, b \in ExecutorBundles :
        LET m == release_stock_to_customer(warehouse_code, b, warehouses) IN
        Called("release_stock_to_customer", warehouse_code, 0, b,
               Report(m.warehouses, NoResult, <<>>, <<>>, m.error, m.failed_at))

NextExecutor ==
    \/ MoveStock
    \/ ReleaseStock

SpecExecutor == InitExecutor /\ [][NextExecutor]_vars

----------------------------------------------------------------------------
(* The files: the stock file as text, read by load_warehouse_data_from_csv *)
(* and written back by save_warehouse_stock_to_csv. A number of the file   *)
(* is the sequence of its decimal digits, leading zeros included; an       *)
(* expiry_date cell is <<>> when empty. call holds the two files read,     *)
(* out.order the warehouse codes in the order the loader created them (the *)
(* order of the warehouses dict), out.saved the rows written.              *)

MaxDigits == 2      \* digits of a quantity cell of the stock file: 1..MaxDigits
MaxFileRows == 2    \* rows of the stock file that is written back
MaxFileConnRows == 1   \* rows of the connection file read with it

\* int(text) of a cell of decimal digits
RECURSIVE ParseInt(_)
ParseInt(text) ==
    IF Len(text) = 0 THEN 0
    ELSE ParseInt(SubSeq(text, 1, Len(text) - 1)) * 10 + text[Len(text)]

IntTexts(digits) == SeqsUpTo(0..1, digits) \ {<<>>}

\* the rows csv.DictReader yields for the stock file
FileRows ==
    [warehouse_code : WarehouseCodes, item_code : ItemCodes,
     quantity : IntTexts(MaxDigits), min_amount : IntTexts(1),
     expiry_date : {<<>>} \cup {<<d>> : d \in ExpiryDays}]

\* the rows of the stock file as the loader takes them: int(row['quantity']),
\* int(row['min_amount']), the other cells as they are
ParseStockRows(text_rows) ==
    [i \in 1..Len(text_rows) |->
        [text_rows[i] EXCEPT !.quantity = ParseInt(@), !.min_amount = ParseInt(@)]]

InitFiles ==
    \E text_rows \in SeqsUpTo(FileRows, MaxFileRows),
       connection_rows \in SeqsUpTo(ConnectionRows, MaxFileConnRows) :
        /\ warehouses = load_warehouse_data_from_csv(ParseStockRows(text_rows),
                                                     connection_rows)
        /\ pre = warehouses
        /\ call = [op |-> "load", stock_rows |-> text_rows,
                   connection_rows |-> connection_rows]
        /\ out = [order |-> KeyOrder(text_rows, connection_rows), saved |-> <<>>]
        /\ ncalls = 0

Save ==
    /\ ncalls = 0
    /\ call' = [call EXCEPT !.op = "save"]
    /\ out' = [out EXCEPT !.saved = save_warehouse_stock_to_csv(warehouses, out.order, 1)]
    /\ pre' = warehouses
    /\ ncalls' = ncalls + 1
    /\ UNCHANGED warehouses

NextFiles == Save

SpecFiles == InitFiles /\ [][NextFiles]_vars

----------------------------------------------------------------------------
(* The heuristic called on its own: a ledger is loaded, with records at,   *)
(* below and above their reserve and expiry dates before, within and       *)
(* beyond the 30 days, and heuristic is called on a warehouse's stock.     *)
(* out.value is what it returns, out.terms what each item added to it.     *)

MaxHeuristicRows == 2   \* rows of the stock file of a heuristic call
MaxHeuristicQty == 2    \* quantity of such a row: 0..MaxHeuristicQty
MaxHeuristicReq == 2    \* a quantity required from the heuristic: 1..MaxHeuristicReq

\* days to expiry of the dated records: expired, today, near, at the horizon
HeuristicDays == {0 - 11, 0 - 1, 0, 5, 29, 30, 31}

HeuristicRows ==
    { [warehouse_code |-> 1, item_code |-> c, quantity |-> q, min_amount |-> m,
       expiry_date |-> x] :
      c \in ItemCodes, q \in 0..MaxHeuristicQty, m \in 0..MaxMin,
      x \in {<<>>} \cup {<<d>> : d \in HeuristicDays} }

HeuristicBundles == BundlesUpTo(MaxHeuristicReq)

InitHeuristic ==
    \E stock_rows \in SeqsUpTo(HeuristicRows, MaxHeuristicRows) :
        Loaded(stock_rows, <<>>)

Heuristic ==
    /\ ncalls = 0
    /\ \E w \in DOMAIN warehouses, b \in HeuristicBundles :
        LET stock == warehouses[w].warehouse_stock IN
        /\ call' = [op |-> "heuristic", start |-> w, dest |-> 0, bundle |-> b]
        /\ out' = [value |-> heuristic(stock, b),
                   terms |-> [k \in 1..Len(b) |-> ItemPenalty(stock, b[k][1], b[k][2])]]
        /\ pre' = warehouses
        /\ ncalls' = ncalls + 1
        /\ UNCHANGED warehouses

NextHeuristic == Heuristic

SpecHeuristic == InitHeuristic /\ [][NextHeuristic]_vars

----------------------------------------------------------------------------
(* One search in steps: find_best_warehouse run one iteration of its while *)
(* loop at a time. out is the position of the running search: the queue in *)
(* push order, the visited set, the warehouses tested and expanded so far  *)
(* (in order), the entry popped by the last iteration and the queue it was *)
(* popped from; ncalls counts the iterations. The graphs include           *)
(* self-loops, cycles and zero-cost edges.                                 *)

MaxSearchStockRows == 1   \* rows of the stock file of a stepped search
MaxSearchConnRows == 3    \* rows of the connection file of a stepped search

\* the connection files of the stepped searches: any row, self-loops included
SearchConnectionRows ==
    [warehouse_code : WarehouseCodes, neighbor_code : WarehouseCodes,
     travel_cost : 0..MaxCost]

\* the stock files of the stepped searches: rows of the first item, no reserve
SearchRows == {r \in RequestRows : r.item_code = 1 /\ r.min_amount = 0}

\* the bundles of the stepped searches: at most one item
SearchBundles == {b \in RequestBundles : Len(b) <= 1}

\* The test that lets every popped entry through.
NeverSkipped(current, visited) == FALSE

\* if current in visited: continue
Skipped(current, visited) == current \in visited

\* the entries pushed when current is expanded, in the order of the pushes
\* (the order of warehouses[current].adjacent.items())
ExpandInOrder(whs, required_stock, total_cost, current, path, visited) ==
    LET adjacent == whs[current].adjacent
        pushed == [k \in 1..Len(adjacent) |->
                      <<total_cost + adjacent[k][2]
                          + heuristic(whs[adjacent[k][1]].warehouse_stock, required_stock),
                        adjacent[k][1],
                        Append(path, current)>>]
    IN SelectSeq(pushed, LAMBDA e : e[2] \notin visited)

Remove(pq, e) == SelectSeq(pq, LAMBDA o : o # e)

SearchStart(op, start, required_stock) ==
    /\ call = [op |-> op, start |-> start, dest |-> 0, bundle |-> required_stock]
    /\ out = [pq |-> << <<0, start, <<>>>> >>, visited |-> {}, tested |-> <<>>,
              expanded |-> <<>>, popped |-> <<>>, waiting |-> <<>>,
              result |-> NoResult, running |-> TRUE]
    /\ ncalls = 0

InitSearch ==
    \E stock_rows \in SeqsUpTo(SearchRows, MaxSearchStockRows),
       connection_rows \in SeqsUpTo(SearchConnectionRows, MaxSearchConnRows) :
        /\ warehouses = load_warehouse_data_from_csv(stock_rows, connection_rows)
        /\ pre = warehouses
        /\ \E op \in {"find_optimize", "find_dispatch"}, start \in DOMAIN warehouses,
              b \in SearchBundles :
            SearchStart(op, start, b)

\* one iteration that pops entry e and leaves the search in position next
Iteration(e, next) ==
    /\ out' = [next EXCEPT !.popped = e, !.waiting = out.pq]
    /\ ncalls' = ncalls + 1
    /\ UNCHANGED <<warehouses, pre, call>>

\* the position after current has been marked visited and its neighbors pushed
Expanded(e, rest) ==
    LET visited == out.visited \cup {e[2]} IN
    [out EXCEPT !.visited = visited,
                !.expanded = Append(@, e[2]),
                !.pq = rest \o ExpandInOrder(warehouses, call.bundle, e[1], e[2], e[3],
                                             visited)]

\* while pq: ... return None
SearchExhausted ==
    /\ out.running
    /\ out.pq = <<>>
    /\ out' = [out EXCEPT !.running = FALSE, !.result = NoResult]
    /\ UNCHANGED <<warehouses, pre, call, ncalls>>

\* stock_optimization.py only: the entry of the start warehouse is expanded and
\* then skipped
SearchExpandStart ==
    /\ out.running
    /\ out.pq # <<>>
    /\ call.op = "find_optimize"
    /\ LET e == HeapPop(Range(out.pq)) IN
        /\ e[2] = call.start
        /\ Iteration(e, Expanded(e, Remove(out.pq, e)))

SearchSkip ==
    /\ out.running
    /\ out.pq # <<>>
    /\ LET e == HeapPop(Range(out.pq)) IN
        /\ ~(call.op = "find_optimize" /\ e[2] = call.start)
        /\ Skipped(e[2], out.visited)
        /\ Iteration(e, [out EXCEPT !.pq = Remove(out.pq, e)])

SearchReturn ==
    /\ out.running
    /\ out.pq # <<>>
    /\ LET e == HeapPop(Range(out.pq)) IN
        /\ ~(call.op = "find_optimize" /\ e[2] = call.start)
        /\ ~Skipped(e[2], out.visited)
        /\ CanFulfill(warehouses[e[2]].warehouse_stock, call.bundle)
        /\ Iteration(e, [out EXCEPT !.pq = Remove(out.pq, e),
                                    !.visited = @ \cup {e[2]},
                                    !.tested = Append(@, e[2]),
                                    !.running = FALSE,
                                    !.result = [found |-> TRUE, cost |-> e[1],
                                                path |-> Append(e[3], e[2])]])

SearchExpand ==
    /\ out.running
    /\ out.pq # <<>>
    /\ LET e == HeapPop(Range(out.pq)) IN
        /\ ~(call.op = "find_optimize" /\ e[2] = call.start)
        /\ ~Skipped(e[2], out.visited)
        /\ ~CanFulfill(warehouses[e[2]].warehouse_stock, call.bundle)
        /\ Iteration(e, [Expanded(e, Remove(out.pq, e)) EXCEPT
                             !.tested = Append(@, e[2])])

NextSearch ==
    \/ SearchExhausted
    \/ SearchExpandStart
    \/ SearchSkip
    \/ SearchReturn
    \/ SearchExpand

\* the loop runs until it returns
SpecSearch == InitSearch /\ [][NextSearch]_vars /\ WF_vars(NextSearch)

----------------------------------------------------------------------------
(* The per-item fallback: one call of process_required_stock for a bundle  *)
(* of two items, on a graph loaded from up to three stock rows, so that    *)
(* one item can have two records at its source while the other item is     *)
(* held by another warehouse.                                              *)

MaxFallbackStockRows == 3   \* rows of the stock file of a two-item request
MaxFallbackConnRows == 2    \* rows of the connection file of a two-item request

\* the stock files of the two-item requests: rows without an expiry date
FallbackRows == {r \in RequestRows : r.expiry_date = <<>>}

\* the bundles of the two-item requests: every item code, in either order
FallbackBundles == {b \in RequestBundles : Len(b) = Cardinality(ItemCodes)}

InitFallback ==
    \E stock_rows \in SeqsUpTo(FallbackRows, MaxFallbackStockRows),
       connection_rows \in SeqsUpTo(ConnectionRows, MaxFallbackConnRows) :
        Loaded(stock_rows, connection_rows)

FallbackOptimize ==
    /\ ncalls = 0
    /\ \E start \in DOMAIN warehouses, b \in FallbackBundles :
        Called("optimize", start, start, b,
               process_required_stock_optimize(start, warehouses, b))

FallbackDispatch ==
    /\ ncalls = 0
    /\ \E start \in DOMAIN warehouses, b \in FallbackBundles :
        Called("dispatch", start, 0, b,
               process_required_stock_dispatch(start, warehouses, b))

NextFallback ==
    \/ FallbackOptimize
    \/ FallbackDispatch

SpecFallback == InitFallback /\ [][NextFallback]_vars

----------------------------------------------------------------------------
(* Vocabulary of the properties.                                           *)

IsExecutorCall == call.op \in {"move_stock", "release_stock_to_customer"}
IsRequest == call.op \in {"optimize", "dispatch"}
IsTransfer == call.op \in {"move_stock", "optimize"}

\* the records of one item at a stock list, in the list's order
ItemRecords(stock, item_code) == SelectSeq(stock, LAMBDA r : r.item_code = item_code)

\* at most one record per item code in every warehouse (data model of the ledger)
UniqueRecords(whs) ==
    \A w \in DOMAIN whs :
        \A i, j \in 1..Len(whs[w].warehouse_stock) :
            i # j => whs[w].warehouse_stock[i].item_code # whs[w].warehouse_stock[j].item_code

\* position of an item in a bundle, 0 if it is not requested
RECURSIVE BundleIndex(_, _, _)
BundleIndex(bundle, item_code, i) ==
    IF i > Len(bundle) THEN 0
    ELSE IF bundle[i][1] = item_code THEN i
    ELSE BundleIndex(bundle, item_code, i + 1)

AdjustFirst(records, delta) == [records EXCEPT ![1].quantity = @ + delta]

FreshRecord(item_code, quantity) ==
    [item_code |-> item_code, quantity |-> quantity, min_amount |-> 0, expiry_date |-> <<>>]

\* The records of item_code that warehouse w must hold once the first `done`
\* items of the bundle have been allocated from source (to destination when
\* transfer is TRUE) on the graph whs, and nothing else has been touched.
Allocated(whs, transfer, source, destination, bundle, done, w, item_code) ==
    LET old == ItemRecords(whs[w].warehouse_stock, item_code)
        k == BundleIndex(bundle, item_code, 1)
    IN IF k = 0 \/ k > done THEN old
       ELSE LET q == bundle[k][2]
                debited == IF w = source THEN AdjustFirst(old, 0 - q) ELSE old
            IN IF transfer /\ w = destination
               THEN IF debited = <<>> THEN <<FreshRecord(item_code, q)>>
                    ELSE AdjustFirst(debited, q)
               ELSE debited

\* cost of the edge u -> v, -1 when there is none
EdgeCost(whs, u, v) ==
    LET i == NeighborIndex(whs[u].adjacent, v, 1) IN
    IF i = 0 THEN 0 - 1 ELSE whs[u].adjacent[i][2]

HasEdge(whs, u, v) == NeighborIndex(whs[u].adjacent, v, 1) # 0

\* sum of the travel costs of the edges between consecutive warehouses of a path
RECURSIVE TravelCost(_, _, _)
TravelCost(whs, path, i) ==
    IF i >= Len(path) THEN 0
    ELSE EdgeCost(whs, path[i], path[i + 1]) + TravelCost(whs, path, i + 1)

\* the warehouses reached from a set along outgoing edges
RECURSIVE ReachedFrom(_, _)
ReachedFrom(whs, seen) ==
    LET more == {v \in DOMAIN whs : \E u \in seen : HasEdge(whs, u, v)} IN
    IF more \subseteq seen THEN seen ELSE ReachedFrom(whs, seen \cup more)

Fulfils(whs, w, bundle) == CanFulfill(whs[w].warehouse_stock, bundle)

\* a result that is a path of the graph from start to a warehouse that fulfils
SoundResult(whs, start, bundle, result) ==
    result.found =>
        /\ Len(result.path) >= 1
        /\ result.path[1] = start
        /\ \A i \in 1..(Len(result.path) - 1) :
               HasEdge(whs, result.path[i], result.path[i + 1])
        /\ Fulfils(whs, Last(result.path), bundle)

----------------------------------------------------------------------------
(* Properties of the executors (SpecExecutor).                             *)

\* C1: after any sequence of move_stock and release_stock_to_customer calls
\* with positive quantities on a ledger whose records all have
\* quantity >= min_amount, completed or aborted, every record of every
\* warehouse still has quantity >= min_amount.
C1_ReserveKept ==
    \A w \in DOMAIN warehouses :
        \A i \in 1..Len(warehouses[w].warehouse_stock) :
            warehouses[w].warehouse_stock[i].quantity
                >= warehouses[w].warehouse_stock[i].min_amount

\* a second call that aborted on its second item after debiting a record of
\* the source down to its positive reserve
C1_Witness ==
    /\ IsExecutorCall
    /\ ncalls = 2
    /\ out.error # NoError
    /\ out.failed_at = 2
    /\ \E i \in 1..Len(warehouses[call.start].warehouse_stock) :
        LET r == warehouses[call.start].warehouse_stock[i] IN
        /\ r.item_code = call.bundle[1][1]
        /\ r.min_amount > 0
        /\ r.quantity = r.min_amount

\* C7: a debit that cannot be honoured changes nothing for that item: when the
\* quantity asked of move_stock or release_stock_to_customer for an item
\* exceeds quantity - min_amount of the source's record of it, or the source
\* has no record of it, the call raises (insufficient stock, resp. item not
\* found, when that item is the one it stops at), and the records of that
\* item are unchanged at the source and at every other warehouse: the
\* destination is not credited.
C7_RefusedDebitChangesNothing ==
    IsExecutorCall =>
        \A k \in 1..Len(call.bundle) :
            LET item_code == call.bundle[k][1]
                quantity == call.bundle[k][2]
                stock == pre[call.start].warehouse_stock
                i == FirstRecord(stock, item_code, 1)
                refused == i = 0 \/ quantity > stock[i].quantity - stock[i].min_amount
            IN refused =>
                /\ out.error # NoError
                /\ out.failed_at \in 1..k
                /\ out.failed_at = k =>
                       out.error = (IF i = 0 THEN NotFound ELSE Insufficient)
                /\ DOMAIN warehouses = DOMAIN pre
                /\ \A w \in DOMAIN pre :
                       ItemRecords(warehouses[w].warehouse_stock, item_code)
                           = ItemRecords(pre[w].warehouse_stock, item_code)

\* the scenario of the specification in small: a transfer asking 2 of a record
\* with quantity 2 and min_amount 1 (available 1) raises insufficient stock
C7_Witness ==
    /\ call.op = "move_stock"
    /\ call.start # call.dest
    /\ out.error = Insufficient
    /\ out.failed_at = 1
    /\ call.bundle[1][2] = 2
    /\ LET stock == pre[call.start].warehouse_stock
           i == FirstRecord(stock, call.bundle[1][1], 1)
       IN /\ stock[i].quantity = 2
          /\ stock[i].min_amount = 1
          /\ warehouses[call.start].warehouse_stock[i].quantity = 2

\* C8: no rollback: when the debit of the k-th item of the bundle fails, the
\* items before it remain debited at the source and (move_stock) credited at
\* the destination, a record with min_amount 0 and no expiry being created
\* where the destination had none, and the records of item k and of the later
\* items are exactly as before the call. (When source and destination are the
\* same warehouse the debit and the credit of an item cancel.)
C8_NoRollback ==
    (IsExecutorCall /\ out.error # NoError) =>
        /\ DOMAIN warehouses = DOMAIN pre
        /\ \A w \in DOMAIN pre : \A item_code \in ItemCodes :
               ItemRecords(warehouses[w].warehouse_stock, item_code)
                   = Allocated(pre, IsTransfer, call.start, call.dest, call.bundle,
                               out.failed_at - 1, w, item_code)

\* a transfer between two warehouses that failed on its second item after
\* creating the record of the first item at the destination
C8_Witness ==
    /\ call.op = "move_stock"
    /\ call.start # call.dest
    /\ out.error # NoError
    /\ out.failed_at = 2
    /\ ItemRecords(pre[call.dest].warehouse_stock, call.bundle[1][1]) = <<>>
    /\ ItemRecords(warehouses[call.dest].warehouse_stock, call.bundle[1][1])
           = <<FreshRecord(call.bundle[1][1], call.bundle[1][2])>>
    /\ warehouses[call.start] # pre[call.start]

----------------------------------------------------------------------------
(* Properties of the requests (Spec): out.whole is what find_best_warehouse *)
(* returned for the whole bundle on the graph pre, out.items what it        *)
(* returned for each item of the per-item fallback.                         *)

\* C2: on a graph in which every warehouse holds at most one record per item
\* code, process_required_stock (optimize or dispatch) with a bundle of
\* positive quantities never raises insufficient stock or item not found:
\* every allocation on a source the search returned succeeds for every item.
C2_SearchedSourceDelivers ==
    (IsRequest /\ UniqueRecords(pre)) => out.error = NoError

\* an optimize call whose whole-bundle search found a source for two items
C2_Witness ==
    /\ call.op = "optimize"
    /\ UniqueRecords(pre)
    /\ Len(call.bundle) = 2
    /\ out.whole.found
    /\ out.error = NoError
    /\ warehouses # pre

\* C3: in both searches, a start warehouse that fully satisfies the bundle
\* (vacuously for an empty bundle) is returned with cost 0 and path [start],
\* whatever its outgoing edges are.
C3_StartReturnedInBothSearches ==
    (IsRequest /\ Fulfils(pre, call.start, call.bundle)) =>
        out.whole = [found |-> TRUE, cost |-> 0, path |-> <<call.start>>]

\* What the two copies do: the dispatch search returns a start warehouse that
\* satisfies the bundle with cost 0 and path [start]; the optimize search
\* expands the start without testing it, so it never returns it and finds
\* nothing from a start without outgoing edges.
StartTestedByDispatchOnly ==
    /\ (call.op = "dispatch" /\ Fulfils(pre, call.start, call.bundle)) =>
           out.whole = [found |-> TRUE, cost |-> 0, path |-> <<call.start>>]
    /\ (call.op = "optimize" /\ out.whole.found) =>
           /\ Len(out.whole.path) >= 2
           /\ Last(out.whole.path) # call.start
    /\ (call.op = "optimize" /\ pre[call.start].adjacent = <<>>) => ~out.whole.found

\* C4: whenever find_best_warehouse returns (cost, path), cost is the sum of
\* the travel costs of the edges between consecutive warehouses of path; the
\* heuristic values are no part of it.
C4_CostIsTravelCost ==
    (IsRequest /\ out.whole.found) =>
        out.whole.cost = TravelCost(pre, out.whole.path, 1)

\* C5: whenever find_best_warehouse returns (cost, path), path is non-empty,
\* starts at the start warehouse, every consecutive pair is a directed edge of
\* the graph, and its last warehouse fully satisfies the bundle it was
\* searched with (summing quantity - min_amount over its records of the item).
C5_PathSound ==
    IsRequest =>
        /\ SoundResult(pre, call.start, call.bundle, out.whole)
        /\ \A i \in 1..Len(out.items) :
               SoundResult(pre, call.start, <<call.bundle[i]>>, out.items[i])

\* a whole-bundle search of two items that returned a path of three warehouses
C5_Witness ==
    /\ IsRequest
    /\ Len(call.bundle) = 2
    /\ out.whole.found
    /\ Len(out.whole.path) = 3

\* C6: the search follows outgoing edges only: it returns a fully satisfying
\* warehouse whenever one other than the start is reachable from the start
\* along directed edges, and not-found whenever neither the start nor any
\* warehouse reachable that way satisfies the bundle, also when a satisfying
\* warehouse has an edge into the start; process_required_stock then goes on
\* to the per-item searches.
C6_OutgoingEdgesOnly ==
    IsRequest =>
        LET reached == ReachedFrom(pre, {call.start}) IN
        /\ (\E w \in reached \ {call.start} : Fulfils(pre, w, call.bundle)) =>
               /\ out.whole.found
               /\ Fulfils(pre, Last(out.whole.path), call.bundle)
        /\ (\A w \in reached : ~Fulfils(pre, w, call.bundle)) =>
               /\ ~out.whole.found
               /\ Len(out.items) >= 1

\* a request from B when only A -> B exists and A satisfies the bundle
C6_Witness ==
    /\ IsRequest
    /\ call.bundle # <<>>
    /\ ~out.whole.found
    /\ Len(out.items) = Len(call.bundle)
    /\ \E w \in DOMAIN pre :
        /\ HasEdge(pre, w, call.start)
        /\ w \notin ReachedFrom(pre, {call.start})
        /\ Fulfils(pre, w, call.bundle)

\* the whole bundle allocated from the source of the whole-bundle search
\* alone: no per-item search, no error, and per warehouse and item the records
\* of the graph as loaded with the source debited by the requested amount and,
\* in the optimize flow, the target credited with it (a record with that
\* quantity, min_amount 0 and no expiry being created if it had none)
WholeBundleAllocated ==
    /\ out.items = <<>>
    /\ out.error = NoError
    /\ DOMAIN warehouses = DOMAIN pre
    /\ \A w \in DOMAIN pre : \A item_code \in ItemCodes :
           ItemRecords(warehouses[w].warehouse_stock, item_code)
               = Allocated(pre, call.op = "optimize", Last(out.whole.path),
                           call.start, call.bundle, Len(call.bundle), w, item_code)

\* C9: when the whole-bundle search succeeds with source S, no per-item search
\* is run and the whole bundle is allocated from S alone: S's quantity of
\* every requested item decreases by the requested amount; in the optimize
\* flow the target's quantity increases by it (a record with that quantity,
\* min_amount 0 and no expiry being created if it had none); in the dispatch
\* flow nothing is credited.
C9_WholeBundleFromOneSource ==
    (IsRequest /\ out.whole.found) => WholeBundleAllocated

\* What holds of the whole-bundle allocation: it is as C9 says on every graph
\* with one record per warehouse and item code, and whenever the executor
\* does not raise.
WholeBundleUnlessRaised ==
    (IsRequest /\ out.whole.found /\ (UniqueRecords(pre) \/ out.error = NoError))
        => WholeBundleAllocated

\* every item of the bundle searched as a singleton bundle on the graph as
\* loaded; an item with a source has exactly its quantity allocated from that
\* source and its remaining requirement set to 0; an item without one keeps
\* its full quantity as remaining and its records; the call returns
PerItemAllocated ==
    /\ out.error = NoError
    /\ Len(out.items) = Len(call.bundle)
    /\ Len(out.remaining) = Len(call.bundle)
    /\ DOMAIN warehouses = DOMAIN pre
    /\ \A i \in 1..Len(call.bundle) :
        LET item_code == call.bundle[i][1]
            quantity == call.bundle[i][2]
            result == out.items[i]
        IN /\ result = (IF call.op = "optimize"
                        THEN find_best_warehouse_optimize(call.start, pre,
                                                          <<call.bundle[i]>>)
                        ELSE find_best_warehouse_dispatch(call.start, pre,
                                                          <<call.bundle[i]>>))
           /\ out.remaining[i] = <<item_code, IF result.found THEN 0 ELSE quantity>>
           /\ \A w \in DOMAIN pre :
                  ItemRecords(warehouses[w].warehouse_stock, item_code)
                      = IF result.found
                        THEN Allocated(pre, call.op = "optimize", Last(result.path),
                                       call.start, <<call.bundle[i]>>, 1, w, item_code)
                        ELSE ItemRecords(pre[w].warehouse_stock, item_code)

\* C10: when the whole-bundle search fails, every item of the bundle is
\* searched as a singleton bundle; an item with a source has exactly its
\* quantity allocated from that source and its remaining requirement set to
\* 0; an item without one is reported as unmet, keeps its full quantity as
\* remaining and changes no ledger record; the call does not raise and
\* returns its report, also when no item can be sourced.
C10_PerItemFallback ==
    (IsRequest /\ ~out.whole.found) => PerItemAllocated

\* What holds of the fallback: it is as C10 says on every graph with one
\* record per warehouse and item code, and whenever the executor does not
\* raise.
PerItemFallbackUnlessRaised ==
    (IsRequest /\ ~out.whole.found /\ (UniqueRecords(pre) \/ out.error = NoError))
        => PerItemAllocated

\* travel cost of the cheapest directed path found so far to each warehouse,
\* -1 where none is: one more round of edges added to dist
Relaxed(whs, dist) ==
    [v \in DOMAIN whs |->
        LET through == {dist[u] + EdgeCost(whs, u, v) :
                          u \in {x \in DOMAIN whs : dist[x] >= 0 /\ HasEdge(whs, x, v)}}
            known == through \cup (IF dist[v] >= 0 THEN {dist[v]} ELSE {})
        IN IF known = {} THEN 0 - 1
           ELSE CHOOSE c \in known : \A o \in known : c <= o]

RECURSIVE Cheapest(_, _, _)
Cheapest(whs, dist, rounds) ==
    IF rounds = 0 THEN dist ELSE Cheapest(whs, Relaxed(whs, dist), rounds - 1)

\* the least travel cost of a directed path from start to each warehouse
TravelDistance(whs, start) ==
    Cheapest(whs, [v \in DOMAIN whs |-> IF v = start THEN 0 ELSE 0 - 1],
             Cardinality(DOMAIN whs))

\* C12: the path returned by find_best_warehouse is a lowest-cost one: its
\* total travel cost is minimal among all directed paths from the start
\* warehouse to any warehouse that fully satisfies the bundle (in the optimize
\* flow: to any other warehouse that does, the start being no source there).
C12_LowestTravelCost ==
    (IsRequest /\ out.whole.found) =>
        LET dist == TravelDistance(pre, call.start) IN
        \A w \in DOMAIN pre :
            (/\ dist[w] >= 0
             /\ Fulfils(pre, w, call.bundle)
             /\ (call.op = "optimize" => w # call.start)) =>
                TravelCost(pre, out.whole.path, 1) <= dist[w]

\* the warehouses that satisfy the bundle and to which a directed path leads
\* from the start, with the least travel cost of such a path
Sources(whs, start, bundle) ==
    LET dist == TravelDistance(whs, start) IN
    {<<w, dist[w]>> : w \in {x \in DOMAIN whs : dist[x] >= 0 /\ Fulfils(whs, x, bundle)}}

HeuristicAt(whs, w, bundle) == heuristic(whs[w].warehouse_stock, bundle)

\* C12 amended: find_best_warehouse returns the first warehouse, in the order
\* of the pops (ascending f, the travel costs plus the heuristic values
\* accumulated along the path), that satisfies the bundle, and the travel
\* cost of its path need not be the least. Unless the start itself is
\* returned, the cost returned is at most travel cost + heuristic of every
\* neighbor of the start that satisfies the bundle; and when the heuristic is
\* 0 at every warehouse other than the start, the path returned has the least
\* travel cost among the directed paths to the warehouses that satisfy the
\* bundle (other than the start in the optimize flow).
C12_FirstSuccessInPopOrder ==
    (IsRequest /\ out.whole.found /\ Last(out.whole.path) # call.start) =>
        /\ \A w \in DOMAIN pre \ {call.start} :
               (HasEdge(pre, call.start, w) /\ Fulfils(pre, w, call.bundle)) =>
                   out.whole.cost <= EdgeCost(pre, call.start, w)
                                        + HeuristicAt(pre, w, call.bundle)
        /\ (\A w \in DOMAIN pre \ {call.start} : HeuristicAt(pre, w, call.bundle) = 0) =>
               \A s \in Sources(pre, call.start, call.bundle) :
                   s[1] # call.start => TravelCost(pre, out.whole.path, 1) <= s[2]

\* a search that returned a neighbor of the start for its expiring stock
\* although another neighbor that satisfies the bundle is nearer
C12_Witness ==
    /\ IsRequest
    /\ out.whole.found
    /\ Len(out.whole.path) = 2
    /\ \E w \in DOMAIN pre \ {call.start, Last(out.whole.path)} :
        /\ HasEdge(pre, call.start, w)
        /\ Fulfils(pre, w, call.bundle)
        /\ EdgeCost(pre, call.start, w) < TravelCost(pre, out.whole.path, 1)
        /\ out.whole.cost < EdgeCost(pre, call.start, w) + HeuristicAt(pre, w, call.bundle)

\* C19: the search's fulfilment test and the executor's debit agree also when
\* a warehouse holds several records of one item code: whenever
\* find_best_warehouse returns a source for a bundle of positive quantities,
\* the allocation from that source completes without raising.
C19_SearchAndDebitAgree ==
    (IsRequest /\ (out.whole.found \/ \E i \in 1..Len(out.items) : out.items[i].found)) =>
        out.error = NoError

\* the warehouses a request took the k-th item of its bundle from
ChosenSources(k) ==
    IF out.whole.found THEN {Last(out.whole.path)}
    ELSE IF k <= Len(out.items) /\ out.items[k].found THEN {Last(out.items[k].path)}
    ELSE {}

\* C17: frame of one call of process_required_stock: the warehouses and their
\* adjacency are unchanged; no record is removed or moved; an existing record
\* keeps its item code, min_amount and expiry_date, and its quantity changes
\* only if its item is requested and its warehouse is the source chosen for
\* that item or, in the optimize flow, the target; records are created only
\* by the optimize flow, at the target, for requested items, with min_amount
\* 0 and no expiry; and a call whose searches find no source (only
\* find_best_warehouse and heuristic have run) changes nothing at all.
C17_Frame ==
    IsRequest =>
        /\ DOMAIN warehouses = DOMAIN pre
        /\ \A w \in DOMAIN pre :
            LET old == pre[w].warehouse_stock
                new == warehouses[w].warehouse_stock
            IN /\ warehouses[w].adjacent = pre[w].adjacent
               /\ Len(new) >= Len(old)
               /\ \A i \in 1..Len(old) :
                      LET k == BundleIndex(call.bundle, old[i].item_code, 1) IN
                      /\ new[i].item_code = old[i].item_code
                      /\ new[i].min_amount = old[i].min_amount
                      /\ new[i].expiry_date = old[i].expiry_date
                      /\ new[i].quantity # old[i].quantity =>
                             /\ k # 0
                             /\ \/ w \in ChosenSources(k)
                                \/ call.op = "optimize" /\ w = call.start
               /\ \A i \in (Len(old) + 1)..Len(new) :
                      /\ call.op = "optimize"
                      /\ w = call.start
                      /\ BundleIndex(call.bundle, new[i].item_code, 1) # 0
                      /\ new[i].min_amount = 0
                      /\ new[i].expiry_date = <<>>
        /\ (\A k \in 1..Len(call.bundle) : ChosenSources(k) = {}) => warehouses = pre

\* an optimize call that took one item from a source and credited it to the
\* target's record of it, a record with a reserve and an expiry date, which
\* it keeps
C17_Witness ==
    /\ call.op = "optimize"
    /\ Len(call.bundle) = 1
    /\ out.whole.found
    /\ out.error = NoError
    /\ LET old == pre[call.start].warehouse_stock
           new == warehouses[call.start].warehouse_stock
       IN /\ Len(old) = 1
          /\ Len(new) = 1
          /\ old[1].min_amount = 1
          /\ old[1].expiry_date # <<>>
          /\ new[1].quantity = old[1].quantity + call.bundle[1][2]
          /\ new[1].min_amount = 1

----------------------------------------------------------------------------
(* Properties of the files (SpecFiles).                                    *)

\* number of times a row occurs in a sequence of rows
RECURSIVE Occurrences(_, _, _)
Occurrences(rows, row, i) ==
    IF i > Len(rows) THEN 0
    ELSE (IF rows[i] = row THEN 1 ELSE 0) + Occurrences(rows, row, i + 1)

SameRows(a, b) ==
    \A row \in Range(a) \cup Range(b) : Occurrences(a, row, 1) = Occurrences(b, row, 1)

\* C14: round trip: the stock file written by save_warehouse_stock_to_csv
\* right after load_warehouse_data_from_csv holds exactly the records of the
\* stock file read: the same (warehouse_code, item_code, quantity,
\* min_amount, expiry_date) rows with the same multiplicity, the numbers
\* compared by value (a number is written without its leading zeros), an
\* empty expiry staying empty, and no row for a warehouse that appears in
\* the connection file only.
C14_RoundTrip ==
    call.op = "save" =>
        /\ SameRows(ParseStockRows(out.saved), ParseStockRows(call.stock_rows))
        /\ \A i \in 1..Len(out.saved) :
               /\ out.saved[i].quantity = FormatInt(ParseInt(out.saved[i].quantity))
               /\ \E j \in 1..Len(call.stock_rows) :
                      out.saved[i].warehouse_code = call.stock_rows[j].warehouse_code

\* a file of two equal rows without expiry, one quantity written with a
\* leading zero, read together with a connection to a warehouse without stock
C14_Witness ==
    /\ call.op = "save"
    /\ Len(call.stock_rows) = 2
    /\ ParseStockRows(call.stock_rows)[1] = ParseStockRows(call.stock_rows)[2]
    /\ call.stock_rows[1].quantity = <<0, 1>>
    /\ call.stock_rows[1].expiry_date = <<>>
    /\ Len(out.saved) = 2
    /\ out.saved[1] = out.saved[2]
    /\ out.saved[1].quantity = <<1>>
    /\ \E w \in DOMAIN warehouses : warehouses[w].warehouse_stock = <<>>

----------------------------------------------------------------------------
(* Properties of the heuristic (SpecHeuristic).                            *)

IsHeuristic == call.op = "heuristic"

Max(a, b) == IF a >= b THEN a ELSE b

\* ceil(n / 10)
CeilTenth(n) == 0 - ((0 - n) \div 10)

RECURSIVE SumSeq(_, _)
SumSeq(s, i) == IF i > Len(s) THEN 0 ELSE s[i] + SumSeq(s, i + 1)

\* the shortfall part of the term of a requested item that has a record
Shortfall(record, amount) == 2 * Max(0, amount - (record.quantity - record.min_amount))

\* the term of a requested item as the specification states it, for a stock
\* list with at most one record of the item
StatedTerm(stock, item_code, amount) ==
    LET records == ItemRecords(stock, item_code) IN
    IF records = <<>> THEN 2 * amount
    ELSE LET record == records[1]
             reward == IF record.expiry_date = <<>> THEN 0
                       ELSE IF record.expiry_date[1] >= 30 THEN 0
                       ELSE CeilTenth(30 - record.expiry_date[1])
         IN Shortfall(record, amount) - reward

\* C13: for a warehouse with at most one record per item code, heuristic is
\* the sum over the requested items of 2 * amount for an item without record,
\* and of 2 * max(0, amount - (quantity - min_amount)) minus the expiry
\* reward otherwise, the reward being 0 without expiry date or from 30 days
\* on and ceil((30 - d) / 10) for d < 30 days; it is a function of stock,
\* bundle and days to expiry, and the call changes no record.
C13_HeuristicFormula ==
    (IsHeuristic /\ UniqueRecords(pre)) =>
        LET stock == pre[call.start].warehouse_stock IN
        /\ out.value = SumSeq([k \in 1..Len(call.bundle) |->
                                  StatedTerm(stock, call.bundle[k][1], call.bundle[k][2])],
                              1)
        /\ out.value = heuristic(stock, call.bundle)
        /\ warehouses = pre

\* the scenario of the specification: a record expiring in 5 days that covers
\* the requirement contributes -3, next to a second item that is 2 short
C13_Witness ==
    /\ IsHeuristic
    /\ UniqueRecords(pre)
    /\ Len(call.bundle) = 2
    /\ Len(pre[call.start].warehouse_stock) = 2
    /\ \E k \in 1..2 :
        /\ out.terms[k] = 0 - 3
        /\ ItemRecords(pre[call.start].warehouse_stock, call.bundle[k][1])[1].expiry_date
               = <<5>>
        /\ out.terms[3 - k] = 4
    /\ out.value = 1

\* C16: the expiry reward is capped at its day-0 value: for every record and
\* every number of days to expiry, negative ones included, the amount
\* subtracted from the penalty of the item is at most 3, and it is 0 from 30
\* days on.
C16_RewardCappedAtDayZero ==
    IsHeuristic =>
        \A k \in 1..Len(call.bundle) :
            LET stock == pre[call.start].warehouse_stock
                i == LastRecord(stock, call.bundle[k][1], Len(stock))
            IN i # 0 =>
                LET reward == Shortfall(stock[i], call.bundle[k][2]) - out.terms[k] IN
                /\ reward <= 3
                /\ (stock[i].expiry_date # <<>> /\ stock[i].expiry_date[1] >= 30) =>
                       reward = 0

----------------------------------------------------------------------------
(* Properties of one search run in steps (SpecSearch).                     *)

NoRepeat(s) == \A i, j \in 1..Len(s) : i # j => s[i] # s[j]

Returned == ~out.running

IsSearch == call.op \in {"find_optimize", "find_dispatch"}

\* what the function called returns on the graph it was called on
SearchResult ==
    IF call.op = "find_optimize"
    THEN find_best_warehouse_optimize(call.start, pre, call.bundle)
    ELSE find_best_warehouse_dispatch(call.start, pre, call.bundle)

\* the directed edges of the graph
Edges(whs) == {e \in (DOMAIN whs) \X (DOMAIN whs) : HasEdge(whs, e[1], e[2])}

\* C11: find_best_warehouse terminates on every finite graph, cycles,
\* self-loops and zero-cost edges included: no warehouse is tested twice or
\* expanded twice, the loop makes at most one iteration per edge of the graph
\* besides the first, it returns (and what it returns is the function's
\* result), and when no warehouse of the graph satisfies the bundle the queue
\* is empty and not-found is returned.
C11_SearchTerminates ==
    /\ [](/\ NoRepeat(out.tested)
          /\ NoRepeat(out.expanded)
          /\ ncalls <= 1 + Cardinality(Edges(pre))
          /\ Returned => out.result = SearchResult
          /\ (Returned /\ \A w \in DOMAIN pre : ~Fulfils(pre, w, call.bundle)) =>
                 /\ out.result = NoResult
                 /\ out.pq = <<>>)
    /\ <>Returned

\* an unsatisfiable search over a graph with a self-loop at the start, a cycle
\* through the start and a zero-cost edge that visited the cycle and returned
\* not-found with the queue empty
C11_Witness ==
    /\ IsSearch
    /\ Returned
    /\ out.result = NoResult
    /\ out.pq = <<>>
    /\ call.bundle # <<>>
    /\ HasEdge(pre, call.start, call.start)
    /\ \E w \in DOMAIN pre \ {call.start} :
        /\ HasEdge(pre, call.start, w)
        /\ HasEdge(pre, w, call.start)
        /\ EdgeCost(pre, call.start, w) = 0
        /\ w \in Range(out.expanded)

\* an iteration has popped an entry
HasPopped == IsSearch /\ out.popped # <<>>

\* place of an entry in the queue, in the order of the pushes
PushRank(pq, e) == CHOOSE i \in 1..Len(pq) : pq[i] = e

\* C15 as stated: the entry popped has the least f of the queue, and among
\* the entries of equal f it is the one pushed first; the warehouse code
\* plays no role.
C15_TiesByDiscoveryOrder ==
    HasPopped =>
        \A i \in 1..Len(out.waiting) :
            /\ out.popped[1] <= out.waiting[i][1]
            /\ out.popped[1] = out.waiting[i][1] =>
                   PushRank(out.waiting, out.popped) <= i

\* C15 amended: the entry popped has the least f of the queue, and among the
\* entries of equal f it is the one with the least warehouse code, whatever
\* the order of the pushes; entries equal in f and warehouse code are popped
\* in the order of their paths (compared as lists of warehouse codes).
C15_TiesByWarehouseCode ==
    HasPopped =>
        \A i \in 1..Len(out.waiting) :
            LET o == out.waiting[i] IN
            /\ out.popped[1] <= o[1]
            /\ (out.popped[1] = o[1] /\ o # out.popped) =>
                   \/ out.popped[2] < o[2]
                   \/ out.popped[2] = o[2] /\ PathLess(out.popped[3], o[3], 1)

\* a pop of the entry pushed second, before the entry pushed first that has
\* the same f and the greater warehouse code
C15_Witness ==
    /\ HasPopped
    /\ \E i \in 1..Len(out.waiting) :
        /\ i < PushRank(out.waiting, out.popped)
        /\ out.waiting[i][1] = out.popped[1]
        /\ out.waiting[i][2] > out.popped[2]

\* what the other copy of find_best_warehouse returns for the same call
OtherCopyResult ==
    IF call.op = "find_optimize"
    THEN find_best_warehouse_dispatch(call.start, pre, call.bundle)
    ELSE find_best_warehouse_optimize(call.start, pre, call.bundle)

\* C20: the two copies of find_best_warehouse differ at the start warehouse
\* only: for every graph, start and bundle such that the start warehouse does
\* not itself satisfy the bundle, the search run returns what the other copy
\* returns: the same cost and the same path, or not-found from both.
C20_CopiesAgreeOffStart ==
    (IsSearch /\ Returned /\ ~Fulfils(pre, call.start, call.bundle)) =>
        out.result = OtherCopyResult

\* an optimize search from a start warehouse with a self-loop that returned a
\* path of three warehouses
C20_Witness ==
    /\ call.op = "find_optimize"
    /\ Returned
    /\ ~Fulfils(pre, call.start, call.bundle)
    /\ HasEdge(pre, call.start, call.start)
    /\ out.result.found
    /\ Len(out.result.path) = 3
    /\ out.result = OtherCopyResult

----------------------------------------------------------------------------
(* Conservation of stock by the executors (SpecExecutor).                  *)

\* the quantity of an item held by the warehouses of a set, all records counted
RECURSIVE TotalQuantity(_, _, _)
TotalQuantity(whs, codes, item_code) ==
    IF codes = {} THEN 0
    ELSE LET w == CHOOSE c \in codes : TRUE
             stock == whs[w].warehouse_stock
         IN SumSeq([i \in 1..Len(stock) |->
                       IF stock[i].item_code = item_code THEN stock[i].quantity ELSE 0], 1)
            + TotalQuantity(whs, codes \ {w}, item_code)

\* the quantity of an item the last call debited before it completed or aborted
DebitedQuantity(item_code) ==
    LET k == BundleIndex(call.bundle, item_code, 1) IN
    IF k # 0 /\ (out.error = NoError \/ k < out.failed_at) THEN call.bundle[k][2] ELSE 0

\* C18: conservation: for every item code the total quantity over all
\* warehouses is unchanged by a move_stock call, completed or aborted on a
\* later item, source and destination equal or not; a
\* release_stock_to_customer call lowers it by exactly the quantities of the
\* items it debited before it completed or aborted, and never raises it.
C18_Conservation ==
    IsExecutorCall =>
        /\ DOMAIN warehouses = DOMAIN pre
        /\ \A item_code \in ItemCodes :
            LET before == TotalQuantity(pre, DOMAIN pre, item_code)
                after == TotalQuantity(warehouses, DOMAIN warehouses, item_code)
            IN /\ call.op = "move_stock" => after = before
               /\ call.op = "release_stock_to_customer" =>
                      /\ after = before - DebitedQuantity(item_code)
                      /\ after <= before

\* a release, the second call on its ledger, that debited 2 of its first item
\* and aborted on the second item
C18_Witness ==
    /\ call.op = "release_stock_to_customer"
    /\ ncalls = 2
    /\ out.failed_at = 2
    /\ DebitedQuantity(call.bundle[1][1]) = 2
    /\ DebitedQuantity(call.bundle[2][1]) = 0
    /\ TotalQuantity(warehouses, DOMAIN warehouses, call.bundle[1][1])
           = TotalQuantity(pre, DOMAIN pre, call.bundle[1][1]) - 2

----------------------------------------------------------------------------
(* Properties of the per-item fallback (SpecFallback).                     *)

\* the items of a bundle in the opposite order
Reverse(s) == [i \in 1..Len(s) |-> s[Len(s) + 1 - i]]

\* the report of the last request had it been made on the same graph, from
\* the same start, with the items of its bundle in the opposite order
OtherOrderReport ==
    IF call.op = "optimize"
    THEN process_required_stock_optimize(call.start, pre, Reverse(call.bundle))
    ELSE process_required_stock_dispatch(call.start, pre, Reverse(call.bundle))

\* what a report says of the item at position k of its bundle: whether the
\* item was searched, the source, path and cost found for it (or the unmet
\* result) and the requirement left for it
ItemOutcome(report, k) ==
    IF k <= Len(report.items)
    THEN [searched |-> TRUE, result |-> report.items[k],
          remaining |-> report.remaining[k]]
    ELSE [searched |-> FALSE, result |-> NoResult,
          remaining |-> report.remaining[k]]

\* two ledgers with the same records of every item at every warehouse (rows
\* of different items at one warehouse may follow each other differently)
SameLedger(a, b) ==
    /\ DOMAIN a = DOMAIN b
    /\ \A w \in DOMAIN a :
        /\ a[w].adjacent = b[w].adjacent
        /\ \A item_code \in ItemCodes :
               ItemRecords(a[w].warehouse_stock, item_code)
                   = ItemRecords(b[w].warehouse_stock, item_code)

\* the last request fell back to its items and the other order of the items
\* gives every item the same outcome and leaves the same ledger
SameInOtherOrder ==
    LET other == OtherOrderReport
        n == Len(call.bundle)
    IN /\ \A k \in 1..n : ItemOutcome(out, k) = ItemOutcome(other, n + 1 - k)
       /\ SameLedger(warehouses, other.warehouses)

\* C21: in the per-item fallback of process_required_stock the outcome does
\* not depend on the order of the bundle's items: processed in the opposite
\* order, every item gets the same source, path and cost (or the same unmet
\* result) and the final ledger holds the same records.
C21_FallbackOrderIndependent ==
    (IsRequest /\ Len(call.bundle) = 2 /\ ~out.whole.found) => SameInOtherOrder

\* What holds of the fallback: the searches of the items do not depend on
\* the order (an allocation of one item leaves the records of the other
\* items as they are), and when no allocation raises, neither order raises
\* and both give the same outcomes and the same ledger.
FallbackSearchesIndependent ==
    (IsRequest /\ Len(call.bundle) = 2 /\ ~out.whole.found) =>
        LET other == OtherOrderReport
            n == Len(call.bundle)
        IN /\ ~other.whole.found
           /\ \A k \in 1..n :
                  (k <= Len(out.items) /\ n + 1 - k <= Len(other.items))
                      => out.items[k] = other.items[n + 1 - k]
           /\ (out.error = NoError) = (other.error = NoError)
           /\ out.error = NoError => SameInOtherOrder

====
